---- MODULE Spec2Model ----
(***************************************************************************)
(* A model of cygnals (src/src/index.ts): state cells, derived values      *)
(* (from) built on two private state cells (value, dirty), and the         *)
(* synchronous notification fan-out between them.                          *)
(*                                                                         *)
(* Every operation of the library is synchronous, so one action is one     *)
(* top-level call together with the whole fan-out it causes; the fan-out   *)
(* is computed by the mutually recursive operators set / forEach / invoke  *)
(* / safelyGetCurrentValue, which thread a record st of the heap (Heap)    *)
(* through the calls in the order the JavaScript executes them.  Timer     *)
(* callbacks and the continuations of `await` are operations of their own. *)
(*                                                                         *)
(* The object graphs:                                                      *)
(*   Spec, SpecState (built at construction time)                          *)
(*     m = state(0)                       observed directly by spies and   *)
(*                                        by an observer that resets it    *)
(*     a = state(0); b = state(0)         b only ever holds 0 or 1         *)
(*     S = from(a, x => x % 2)                                             *)
(*     F = from([S, b], (s, b) => s + b)                                   *)
(*   SpecLimit                                                             *)
(*     src = state(v0); one of L1..L4 = limit(src, ...)                    *)
(*   SpecUnwrap, SpecPending, SpecRejected, SpecFulfilled                  *)
(*     url = state(u0); P = from(url, fatch); then the program calls       *)
(*     unwrapPromise(P), pending(P), rejected(P) or fulfilled(P)           *)
(*   SpecReadonly                                                          *)
(*     readonly(m) and readonly(S) over the graph of Spec                  *)
(*   SpecEvent                                                             *)
(*     clicks = fromEvent(element, "click") (src/src/dom.ts)               *)
(*   SpecCancel                                                            *)
(*     the graph of SpecLimit with a debounce, or that of SpecUnwrap; the  *)
(*     program also unsubscribes the callbacks it registered               *)
(***************************************************************************)
EXTENDS Integers, Sequences, FiniteSets, TLC

VARIABLES
    val,      \* cell -> the closure variable `value` of that state()
    subs,     \* cell -> the Set `subscriptions`, in insertion order
    last,     \* spy -> the argument of its most recent invocation
    calls,    \* spy invocations made by the latest operation, in order
    evals,    \* combining-function invocations made by the latest operation
    op,       \* the latest top-level operation, its arguments and result
    unsubs,   \* the Unsubscribe closures handed out so far
    nextTok,  \* identity of the next closure created by callCallback
    touched,  \* derived values reached by a current() or subscribe so far
    pcalls,   \* limit-predicate invocations made by the latest operation
    timers,   \* the pending setTimeout timers
    timeout,  \* the closure variable `timeout` of the debounce instance
    awaiting, \* suspended `await promise` of unwrapPromise's callback
    jobs,     \* the microtask queue: continuations ready to resume
    element,  \* the listeners the DOM element holds for the event type
    ecalls    \* add/removeEventListener calls made by the latest operation

vars == <<val, subs, last, calls, evals, op, unsubs, nextTok, touched,
          pcalls, timers, timeout, awaiting, jobs, element, ecalls>>

\* ---------------------------------------------------------------- bounds
MaxVal == 2     \* state cells hold 0..MaxVal
MaxTok == 2     \* at most MaxTok from.subscribe / from.onChange calls
ms == 2         \* the delay handed to debounce, in clock ticks
MaxInFlight == 2 \* at most MaxInFlight awaited promises not yet resumed
MaxCount == 2   \* fromEvent's subCount stays within -MaxCount..MaxCount

Vals == 0..MaxVal
Spies == {1, 2}

\* ------------------------------------------------------------- encodings
\* `empty` (a fresh Symbol) is !== to every value a combining function
\* returns; the combining functions below return naturals.
empty == -1
\* "this spy was never invoked"
NoCall == -2
\* value the re-entrant observer writes back into the cell it observes
SetterVal == 0
\* `undefined` and `null` where the other values are numbers
Undef == -3
Null == -4

\* a boolean returned by a combining function, written as a number so that
\* it can be compared with `empty` in the cached value cell
Bool01(b) == IF b THEN 1 ELSE 0

StateCells == {"a", "b"}
\* the values written to each state cell: a and m hold numbers, b a 0/1 flag
Written == [a |-> Vals, b |-> {0, 1}, m |-> Vals]
Nodes == {"S", "F"}
\* the private cells of a derived value
value == [S |-> "S.value", F |-> "F.value", P |-> "P.value",
          Pe |-> "Pe.value", Re |-> "Re.value", Fu |-> "Fu.value"]
dirty == [S |-> "S.dirty", F |-> "F.dirty", P |-> "P.dirty",
          Pe |-> "Pe.dirty", Re |-> "Re.dirty", Fu |-> "Fu.dirty"]
Cells == {"m", "a", "b", "S.value", "S.dirty", "F.value", "F.dirty"}

\* dependencies of a derived value, in argument order
\*   P = from(url, fatch), Pe / Re / Fu the derived values that pending,
\*   rejected and fulfilled build on the cells U (unwrapped) and LU (limit)
deps == [S |-> <<"a">>, F |-> <<"S", "b">>, P |-> <<"url">>,
         Pe |-> <<"U">>, Re |-> <<"U">>, Fu |-> <<"LU">>]

\* a derived value together with every derived value it is derived from
RECURSIVE Upstream(_)
Upstream(n) ==
    {n} \cup UNION {Upstream(deps[n][i]) :
                      i \in {j \in 1..Len(deps[n]) : deps[n][j] \in Nodes}}

\* ------------------------------------------------ promises and records
\* the urls written to the cell url
Urls == {0, 1}
\* A promise is an object; the number below carries its identity and the
\* url fatch was called with, which is what it resolves or rejects with.
PBase == 2
Promise(id, u) == id * PBase + u
PromiseId(p) == p \div PBase
PromiseArg(p) == p % PBase

\* An UnwrappedPromise record is an object literal; two records with equal
\* fields are still !== to each other.  The field oid carries what the
\* comparisons of the code can tell about identity: Newest marks the
\* object literal evaluated last, Older every one evaluated before it.
Newest == 1
Older == 2
Unwrapped(oid, pend, result, error) ==
    [oid |-> oid, pending |-> pend, result |-> result, error |-> error]
\* `null` where the other values are records
NullObj == Unwrapped(-1, FALSE, Undef, Undef)
\* the cells whose values are records
ObjCells == {"U", "LU"}

\* a new object literal is about to be evaluated: the object that was the
\* newest so far becomes an older one wherever it is held
retire(st) ==
    [st EXCEPT !.val =
        [c \in DOMAIN st.val |->
            IF c \in ObjCells /\ st.val[c].oid = Newest
            THEN [st.val[c] EXCEPT !.oid = Older]
            ELSE st.val[c]]]

\* the object literal { pending, result, error } evaluated at st, written
\* to the cell U with state.set
setLiteral(st, U, pend, result, error) ==
    [st |-> retire(st), v |-> Unwrapped(Newest, pend, result, error)]

\* the identity of a new promise.  The only promise a new one is ever
\* compared with is the cached value of P (computed !== current), so the
\* smallest identity that differs from that one is taken; suspended awaits
\* are told apart by their position in `awaiting`.
FreshPromise(st) == IF PromiseId(st.val["P.value"]) = 1 THEN 2 ELSE 1

\* fatch(url): a new promise, settled later by the environment
fatch(st, u) == Promise(FreshPromise(st), u)

\* the combining functions
fn(n, args) ==
    CASE n = "S" -> args[1] % 2
      [] n = "F" -> args[1] + args[2]
      \* pending: ({ pending }) => pending
      [] n = "Pe" -> Bool01(args[1].pending)
      \* rejected: ({ error }) => error
      [] n = "Re" -> args[1].error
      \* fulfilled: (promise) => promise?.result
      [] n = "Fu" -> IF args[1] = NullObj THEN Undef ELSE args[1].result

\* ------------------------------------------------------------- callbacks
\* A callback is a closure; closures are compared by identity, which the
\* record below carries in full.
\*   spy      a user callback that records its argument
\*   setter   a user callback that resets cell `node`:
\*            (v) => { if (v !== SetterVal) node.set(SetterVal) }
\*   dirtier  () => dirty.set(true) of derived value `node`
\*   wrapper  callCallback(callback) of derived value `node`; tok is the
\*            identity of this particular closure, (inner, tgt, id)
\*            describe the wrapped callback
Cb(kind, node, id, tok, inner, tgt) ==
    [kind |-> kind, node |-> node, id |-> id, tok |-> tok,
     inner |-> inner, tgt |-> tgt]
spy(k) == Cb("spy", "-", k, 0, "-", "-")
setter(c) == Cb("setter", c, SetterVal, 0, "-", "-")
markDirty(n) == Cb("dirtier", n, 0, 0, "-", "-")
callCallback(n, callback, tok) ==
    Cb("wrapper", n, callback.id, tok, callback.kind, callback.node)
\* the callback a wrapper closes over
Wrapped(w) == Cb(w.inner, w.tgt, w.id, 0, "-", "-")
\* the listener limit registers on its source; `node` is the cell `value`
\* of that limit
limiter(L) == Cb("limiter", L, 0, 0, "-", "-")
\* the callback fromEvent registers on subCount
countListener == Cb("count", "subCount", 0, 0, "-", "-")
\* the async callback unwrapPromise subscribes to its source; `node` is
\* the cell `unwrapped`
unwrapper(U) == Cb("unwrap", U, 0, 0, "-", "-")
NoCb == Cb("-", "-", 0, 0, "-", "-")

\* ------------------------------------------------------------- sequences
Range(s) == {s[i] : i \in 1..Len(s)}
\* Set.prototype.add: insertion order, no duplicates
SetAdd(s, x) == IF x \in Range(s) THEN s ELSE Append(s, x)
\* Set.prototype.delete
SetDelete(s, x) == SelectSeq(s, LAMBDA y : y # x)

\* ------------------------------------------------- limit and debounce
\* the limited readables of the model and their predicates, in argument
\* order:  L1 = limit(src, pos)            L2 = limit(src, pos, even)
\*         L3 = limit(src, debounce(ms))   L4 = limit(src, pos, debounce(ms))
Limited == {"L1", "L2", "L3", "L4"}
\*         LU = limit(U, settled)          inside fulfilled
limitations == [L1 |-> <<"pos">>, L2 |-> <<"pos", "even">>,
                L3 |-> <<"debounce">>, L4 |-> <<"pos", "debounce">>,
                LU |-> <<"settled">>]

\* predicates that accept everything
passes_all(p, v) == TRUE

\* the side-effect-free predicates: (v) => v > 0, (v) => v % 2 === 0 and
\* ({ pending, error }) => !pending && error === undefined
passes(p, v) ==
    CASE p = "pos" -> v > 0
      [] p = "even" -> v % 2 = 0
      [] p = "settled" -> ~v.pending /\ v.error = Undef

\* the `null` limit seeds the cell L with
null(L) == IF L = "LU" THEN NullObj ELSE Null

\* the absent second argument of a predicate
NoWritable == "undefined"

\* setTimeout returns an identifier no pending timer has; the smallest one
\* that is neither pending nor held in `timeout` is taken
FreshTimer(st) ==
    LET used == {t.id : t \in st.timers} \cup {st.timeout}
    IN  CHOOSE i \in 1..(Cardinality(used) + 1) :
            i \notin used /\ \A j \in 1..(i - 1) : j \in used

clearTimeout(st, id) == [st EXCEPT !.timers = {t \in @ : t.id # id}]

\* setTimeout(() => { writable?.set(value) }, delay)
setTimeout(st, writable, v, delay) ==
    LET id == FreshTimer(st)
    IN  [st |-> [st EXCEPT !.timers = @ \cup
                    {[id |-> id, left |-> delay, cell |-> writable, v |-> v]}],
         ret |-> id]

\* a debounce that does not cancel the timer it scheduled before
debounce_noClear(st, v, writable) ==
    LET r == setTimeout(st, writable, v, ms)
    IN  [st |-> [r.st EXCEPT !.timeout = r.ret], ret |-> FALSE]

\* the Limitation returned by debounce(ms)
debounce(st, v, writable) ==
    LET st1 == clearTimeout(st, st.timeout)
        r == setTimeout(st1, writable, v, ms)
    IN  [st |-> [r.st EXCEPT !.timeout = r.ret], ret |-> FALSE]

\* limitation(v, writable) for the predicate named p
limitation(st, p, v, writable) ==
    LET st1 == [st EXCEPT !.pcalls =
                    Append(@, [p |-> p, v |-> v, w |-> writable])]
    IN  IF p = "debounce" THEN debounce(st1, v, writable)
        ELSE [st |-> st1, ret |-> passes(p, v)]

\* a limitations.every that calls every predicate before it decides
RECURSIVE every_noShortCircuit(_, _, _, _, _)
every_noShortCircuit(st, ps, i, v, writable) ==
    IF i > Len(ps) THEN [st |-> st, ret |-> TRUE]
    ELSE LET r == limitation(st, ps[i], v, writable)
             rest == every_noShortCircuit(r.st, ps, i + 1, v, writable)
         IN  [st |-> rest.st, ret |-> r.ret /\ rest.ret]

\* a limitations.some in the place of limitations.every
RECURSIVE every_some(_, _, _, _, _)
every_some(st, ps, i, v, writable) ==
    IF i > Len(ps) THEN [st |-> st, ret |-> FALSE]
    ELSE LET r == limitation(st, ps[i], v, writable)
         IN  IF r.ret THEN [st |-> r.st, ret |-> TRUE]
             ELSE every_some(r.st, ps, i + 1, v, writable)

\* limitations.every((limitation) => limitation(v, writable)): stops at
\* the first predicate that returns false
RECURSIVE every(_, _, _, _, _)
every(st, ps, i, v, writable) ==
    IF i > Len(ps) THEN [st |-> st, ret |-> TRUE]
    ELSE LET r == limitation(st, ps[i], v, writable)
         IN  IF r.ret THEN every(r.st, ps, i + 1, v, writable)
             ELSE [st |-> r.st, ret |-> FALSE]

\* ---------------------------------------------------------- the library
RECURSIVE set(_, _, _), forEach(_, _, _), invoke(_, _, _)
RECURSIVE safelyGetCurrentValue(_, _), depValues(_, _, _, _)

\* state.current
current(st, c) == st.val[c]

\* state.set that compares after it has stored
set_compareAfterStore(st, c, newValue) ==
    LET st1 == [st EXCEPT !.val[c] = newValue]
        notify == newValue # st1.val[c]
    IN  IF notify THEN forEach(st1, c, 1) ELSE st1

\* state.set without the equality test
set_alwaysNotify(st, c, newValue) ==
    forEach([st EXCEPT !.val[c] = newValue], c, 1)

\* state.set: store first, then notify when the stored value differed
set(st, c, newValue) ==
    LET notify == newValue # st.val[c]
        st1 == [st EXCEPT !.val[c] = newValue]
    IN  IF notify THEN forEach(st1, c, 1) ELSE st1

\* subscriptions.forEach((callback) => callback(value)): the argument is
\* the closure variable `value`, read again for every callback, so a
\* nested set changes what the remaining callbacks receive.  No callback
\* of this model adds or deletes a subscription, so the index walk visits
\* exactly the entries Set.forEach visits.
forEach(st, c, i) ==
    IF i > Len(st.subs[c]) THEN st
    ELSE forEach(invoke(st, st.subs[c][i], st.val[c]), c, i + 1)

\* deps.map((dep) => dep.current()), left to right
depValues(st, n, i, acc) ==
    IF i > Len(deps[n]) THEN [st |-> st, ret |-> acc]
    ELSE LET d == deps[n][i]
         IN  IF d \in Nodes
             THEN LET r == safelyGetCurrentValue(st, d)
                  IN  depValues(r.st, n, i + 1, Append(acc, r.ret))
             ELSE depValues(st, n, i + 1, Append(acc, current(st, d)))

\* from.computeValue
computeValue(st, n) ==
    LET r == depValues(st, n, 1, <<>>)
    IN  [st |-> [r.st EXCEPT !.evals = Append(@, n)],
         ret |-> IF n = "P" THEN fatch(r.st, r.ret[1]) ELSE fn(n, r.ret)]

\* `await promise`: the callback is suspended until the promise settles.
\* Every promise that reaches the callback was created by the computeValue
\* that delivered it, so it is not settled yet.
await(st, promise) == [st EXCEPT !.awaiting = Append(@, promise)]

\* an async callback that does not announce the pending state
unwrapCallback_noPending(st, U, promise) == await(st, promise)

\* the async callback of unwrapPromise up to its await
unwrapCallback(st, U, promise) ==
    LET lit == setLiteral(st, U, TRUE, Undef, Undef)
    IN  await(set(lit.st, U, lit.v), promise)

\* from.safelyGetCurrentValue
safelyGetCurrentValue(st, n) ==
    LET cur == current(st, value[n])
        isDirty == current(st, dirty[n])
    IN  IF cur = empty \/ isDirty
        THEN LET r == computeValue(st, n)
                 computed == r.ret
             IN  IF computed # cur
                 THEN [st |-> set(set(r.st, dirty[n], FALSE),
                                  value[n], computed),
                       ret |-> computed]
                 ELSE r
        ELSE [st |-> st, ret |-> cur]

\* element.addEventListener(event, l): the element keeps a set of
\* listeners, so adding one it already holds changes nothing
addEventListener(st, l) ==
    [st EXCEPT !.element = @ \cup {l}, !.ecalls = Append(@, "add")]

\* element.removeEventListener(event, l)
removeEventListener(st, l) ==
    [st EXCEPT !.element = @ \ {l}, !.ecalls = Append(@, "remove")]

\* calling a closure with one argument
invoke(st, cb, v) ==
    CASE cb.kind = "spy" ->
            [st EXCEPT !.last[cb.id] = v,
                       !.calls = Append(@, [id |-> cb.id, v |-> v])]
      [] cb.kind = "setter" ->
            IF v # cb.id THEN set(st, cb.node, cb.id) ELSE st
      [] cb.kind = "dirtier" -> set(st, dirty[cb.node], TRUE)
      [] cb.kind = "unwrap" -> unwrapCallback(st, cb.node, v)
      [] cb.kind = "limiter" ->
            LET r == every(st, limitations[cb.node], 1, v, cb.node)
            IN  IF r.ret THEN set(r.st, cb.node, v) ELSE r.st
      [] cb.kind = "count" ->
            IF v > 0 THEN addEventListener(st, "listener")
            ELSE removeEventListener(st, "listener")
      [] cb.kind = "wrapper" ->
            IF v
            THEN LET r == safelyGetCurrentValue(st, cb.node)
                 IN  invoke(r.st, Wrapped(cb), r.ret)
            ELSE st

\* state.onChange
onChange(st, c, callback) ==
    [st EXCEPT !.subs[c] = SetAdd(@, callback)]

\* state.subscribe without the immediate call
subscribe_noCall(st, c, callback) ==
    [st EXCEPT !.subs[c] = SetAdd(@, callback)]

\* state.subscribe
subscribe(st, c, callback) ==
    LET st1 == [st EXCEPT !.subs[c] = SetAdd(@, callback)]
    IN  invoke(st1, callback, st1.val[c])

\* the closure () => subscriptions.delete(callback)
Unsub(c, callback) == [cell |-> c, cb |-> callback]

\* an unsubscribe that empties the whole set
unsubscribe_clear(st, u) ==
    [st EXCEPT !.subs[u.cell] = <<>>]

unsubscribe(st, u) ==
    [st EXCEPT !.subs[u.cell] = SetDelete(@, u.cb)]

\* fromEvent: function listener(event) { events.set(event) }
listener(st, event) == set(st, "events", event)

\* the subscribe method of the readable fromEvent returns
fromEvent_subscribe(st, callback) ==
    LET st1 == subscribe(st, "events", callback)
    IN  set(st1, "subCount", current(st1, "subCount") + 1)

\* the onChange method of the readable fromEvent returns
fromEvent_onChange(st, callback) ==
    LET st1 == onChange(st, "events", callback)
    IN  set(st1, "subCount", current(st1, "subCount") + 1)

\* the closure both methods return; u is the events unsubscribe it holds
fromEvent_unsubscribe(st, u) ==
    LET st1 == set(st, "subCount", current(st, "subCount") - 1)
    IN  unsubscribe(st1, u)

\* from.current
from_current(st, n) == safelyGetCurrentValue(st, n)

\* from.subscribe
from_subscribe(st, n, callback, tok) ==
    subscribe(st, dirty[n], callCallback(n, callback, tok))

\* a from.onChange that delivers the current value like subscribe
from_onChange_eager(st, n, callback, tok) ==
    subscribe(st, dirty[n], callCallback(n, callback, tok))

\* from.onChange
from_onChange(st, n, callback, tok) ==
    onChange(st, dirty[n], callCallback(n, callback, tok))

\* a limit that hands its cell to the predicates at construction too
limit_passWritable(st, source, L) ==
    LET initialSource == current(st, source)
        r == every(st, limitations[L], 1, initialSource, L)
        st1 == [r.st EXCEPT !.val[L] =
                    IF r.ret THEN initialSource ELSE null(L)]
    IN  onChange(st1, source, limiter(L))

\* a limit that seeds its cell with the source's value unconditionally
limit_seedSource(st, source, L) ==
    LET initialSource == current(st, source)
        r == every(st, limitations[L], 1, initialSource, NoWritable)
        st1 == [r.st EXCEPT !.val[L] = initialSource]
    IN  onChange(st1, source, limiter(L))

\* limit(source, ...limitations[L]); L names the cell `value` it creates,
\* which the returned readonly exposes
limit(st, source, L) ==
    LET initialSource == current(st, source)
        r == every(st, limitations[L], 1, initialSource, NoWritable)
        st1 == [r.st EXCEPT !.val[L] =
                    IF r.ret THEN initialSource ELSE null(L)]
    IN  onChange(st1, source, limiter(L))

\* a timer callback that writes only while the cell has observers
timer_fire_ifObserved(st, t) ==
    LET st1 == [st EXCEPT !.timers = @ \ {t}]
    IN  IF t.cell # NoWritable /\ st.subs[t.cell] # <<>>
        THEN set(st1, t.cell, t.v) ELSE st1

\* the timer callback () => { writable?.set(value) } of timer t runs
timer_fire(st, t) ==
    LET st1 == [st EXCEPT !.timers = @ \ {t}]
    IN  IF t.cell # NoWritable THEN set(st1, t.cell, t.v) ELSE st1

\* unwrapPromise(readable): U names the cell `unwrapped`, created holding
\* { result: undefined, pending: false, error: undefined }
unwrapPromise(st, readable, U) ==
    from_subscribe(st, readable, unwrapper(U), 0)

\* a continuation that writes only while the cell still shows pending
resume_ifPending(st, U, job) ==
    LET lit == IF job.ok THEN setLiteral(st, U, FALSE, job.v, Undef)
               ELSE setLiteral(st, U, FALSE, Undef, job.v)
    IN  IF st.val[U].pending THEN set(lit.st, U, lit.v) ELSE st

\* a continuation that ignores a rejection
resume_dropRejection(st, U, job) ==
    LET lit == setLiteral(st, U, FALSE, job.v, Undef)
    IN  IF job.ok THEN set(lit.st, U, lit.v) ELSE st

\* the rest of the async callback after its await: the try branch when
\* the promise resolved, the catch branch when it rejected
resume(st, U, job) ==
    LET lit == IF job.ok THEN setLiteral(st, U, FALSE, job.v, Undef)
               ELSE setLiteral(st, U, FALSE, Undef, job.v)
    IN  set(lit.st, U, lit.v)

\* pending(promise) = from(unwrapPromise(promise), ...): from registers
\* markDirty on the unwrapped readable
pending(st, promise) ==
    onChange(unwrapPromise(st, promise, "U"), "U", markDirty("Pe"))

\* rejected(promise)
rejected(st, promise) ==
    onChange(unwrapPromise(st, promise, "U"), "U", markDirty("Re"))

\* fulfilled(promise) = from(limit(unwrapPromise(promise), settled), ...)
fulfilled(st, promise) ==
    onChange(limit(unwrapPromise(st, promise, "U"), "U", "LU"),
             "LU", markDirty("Fu"))

\* ------------------------------------------------------------ readonly
\* A readable is an object of methods; a method is a closure over the
\* object it was created in: a state cell or a derived value.
Method(name, obj) == [m |-> name, obj |-> obj]

\* the object state() returns for cell c
Writable(c) ==
    [current |-> Method("current", c), set |-> Method("set", c),
     subscribe |-> Method("subscribe", c),
     onChange |-> Method("onChange", c)]

\* the object from() returns for derived value n
Derived(n) ==
    [current |-> Method("current", n),
     subscribe |-> Method("subscribe", n),
     onChange |-> Method("onChange", n)]

\* a readonly whose subscribe is the onChange of its argument
readonly_subscribeIsOnChange(r) ==
    [current |-> r.current, subscribe |-> r.onChange,
     onChange |-> r.onChange]

\* readonly(state): the three methods of the argument, nothing else
readonly(r) ==
    [current |-> r.current, subscribe |-> r.subscribe,
     onChange |-> r.onChange]

\* calling a registering method with a callback
call(st, method, callback, tok) ==
    IF method.obj \in DOMAIN deps
    THEN IF method.m = "subscribe"
         THEN from_subscribe(st, method.obj, callback, tok)
         ELSE from_onChange(st, method.obj, callback, tok)
    ELSE IF method.m = "subscribe"
         THEN subscribe(st, method.obj, callback)
         ELSE onChange(st, method.obj, callback)

\* calling a current method
call_current(st, method) ==
    IF method.obj \in DOMAIN deps
    THEN from_current(st, method.obj)
    ELSE [st |-> st, ret |-> current(st, method.obj)]

\* ------------------------------------------------------------ the heap
\* the heap at the start of an operation: nothing invoked yet
Heap == [val |-> val, subs |-> subs, last |-> last,
         calls |-> <<>>, evals |-> <<>>, pcalls |-> <<>>,
         timers |-> timers, timeout |-> timeout,
         awaiting |-> awaiting, jobs |-> jobs,
         element |-> element, ecalls |-> <<>>]

Commit(st) ==
    /\ val' = st.val
    /\ subs' = st.subs
    /\ last' = st.last
    /\ calls' = st.calls
    /\ evals' = st.evals
    /\ pcalls' = st.pcalls
    /\ timers' = st.timers
    /\ timeout' = st.timeout
    /\ awaiting' = st.awaiting
    /\ jobs' = st.jobs
    /\ element' = st.element
    /\ ecalls' = st.ecalls

Op(name, tgt, cb, arg, ret) ==
    [name |-> name, tgt |-> tgt, cb |-> cb, arg |-> arg, ret |-> ret,
     \* for a set: did the argument differ from the stored value
     notify |-> name = "set" /\ arg # val[tgt]]

\* construction: from() registers markDirty on every dependency through
\* dep.onChange; for the derived dependency S that is S.onChange, which
\* wraps the callback with callCallback (closure 0)
Init ==
    /\ val = [c \in Cells |->
                IF c \in {"S.dirty", "F.dirty"} THEN TRUE
                ELSE IF c \in {"S.value", "F.value"} THEN empty
                ELSE 0]
    /\ subs = [c \in Cells |->
                IF c = "a" THEN <<markDirty("S")>>
                ELSE IF c = "b" THEN <<markDirty("F")>>
                ELSE IF c = "S.dirty"
                     THEN <<callCallback("S", markDirty("F"), 0)>>
                ELSE <<>>]
    /\ last = [k \in Spies |-> NoCall]
    /\ calls = <<>>
    /\ evals = <<>>
    /\ op = Op("init", "m", NoCb, 0, 0)
    /\ unsubs = {}
    /\ nextTok = 1
    /\ touched = {}
    /\ pcalls = <<>>
    /\ timers = {}
    /\ timeout = 0
    /\ awaiting = <<>>
    /\ jobs = <<>>
    /\ element = {}
    /\ ecalls = <<>>

\* --------------------------------------------------------------- actions
\* c.set(v) on a state cell
Set(c, v) ==
    /\ Commit(set(Heap, c, v))
    /\ op' = Op("set", c, NoCb, v, 0)
    /\ UNCHANGED <<unsubs, nextTok, touched>>

\* c.subscribe(cb) on a state cell
Subscribe(c, cb) ==
    /\ Commit(subscribe(Heap, c, cb))
    /\ op' = Op("subscribe", c, cb, 0, 0)
    /\ unsubs' = unsubs \cup {Unsub(c, cb)}
    /\ UNCHANGED <<nextTok, touched>>

\* c.onChange(cb) on a state cell
OnChange(c, cb) ==
    /\ Commit(onChange(Heap, c, cb))
    /\ op' = Op("onChange", c, cb, 0, 0)
    /\ unsubs' = unsubs \cup {Unsub(c, cb)}
    /\ UNCHANGED <<nextTok, touched>>

\* calling an Unsubscribe closure (any number of times)
Unsubscribe(u) ==
    /\ Commit(unsubscribe(Heap, u))
    /\ op' = Op("unsubscribe", u.cell, u.cb, 0, 0)
    /\ UNCHANGED <<unsubs, nextTok, touched>>

\* n.current() on a derived value
FromCurrent(n) ==
    LET r == from_current(Heap, n)
    IN  /\ Commit(r.st)
        /\ op' = Op("current", n, NoCb, 0, r.ret)
        /\ touched' = touched \cup Upstream(n)
        /\ UNCHANGED <<unsubs, nextTok>>

\* n.subscribe(spy k) on a derived value
FromSubscribe(n, k) ==
    /\ nextTok <= MaxTok
    /\ Commit(from_subscribe(Heap, n, spy(k), nextTok))
    /\ op' = Op("subscribe", n, spy(k), 0, 0)
    /\ unsubs' = unsubs \cup
                   {Unsub(dirty[n], callCallback(n, spy(k), nextTok))}
    /\ nextTok' = nextTok + 1
    /\ touched' = touched \cup Upstream(n)

\* n.onChange(spy k) on a derived value
FromOnChange(n, k) ==
    /\ nextTok <= MaxTok
    /\ Commit(from_onChange(Heap, n, spy(k), nextTok))
    /\ op' = Op("onChange", n, spy(k), 0, 0)
    /\ unsubs' = unsubs \cup
                   {Unsub(dirty[n], callCallback(n, spy(k), nextTok))}
    /\ nextTok' = nextTok + 1
    /\ UNCHANGED touched

\* the derived values S and F over the cells a and b
Next ==
    \/ \E c \in StateCells : \E v \in Written[c] : Set(c, v)
    \/ \E n \in Nodes : FromCurrent(n)
    \/ \E n \in Nodes, k \in Spies : FromSubscribe(n, k)
    \/ \E n \in Nodes, k \in Spies : FromOnChange(n, k)

Spec == Init /\ [][Next]_vars

\* the state cell m observed directly by spies and a re-entrant setter
Observers == {spy(k) : k \in Spies} \cup {setter("m")}

NextState ==
    \/ \E v \in Written["m"] : Set("m", v)
    \/ \E cb \in Observers : Subscribe("m", cb)
    \/ \E cb \in Observers : OnChange("m", cb)
    \/ \E u \in unsubs : Unsubscribe(u)

SpecState == Init /\ [][NextState]_vars

\* ------------------------------------------ limited readables (SpecLimit)
LimitCells == {"src"} \cup Limited

\* the heap in which src = state(v0) exists and nothing else does
LimitHeap(v0) ==
    [val |-> [c \in LimitCells |-> IF c = "src" THEN v0 ELSE Null],
     subs |-> [c \in LimitCells |-> <<>>],
     last |-> [k \in Spies |-> NoCall],
     calls |-> <<>>, evals |-> <<>>, pcalls |-> <<>>,
     timers |-> {}, timeout |-> 0, awaiting |-> <<>>, jobs |-> <<>>,
     element |-> {}, ecalls |-> <<>>]

\* construction: src = state(v0); L = limit(src, ...limitations[L]) for
\* one of the limited readables
InitLimit ==
    \E v0 \in Vals, L \in Limited :
        LET st == limit(LimitHeap(v0), "src", L)
        IN  /\ val = st.val
            /\ subs = st.subs
            /\ last = st.last
            /\ calls = st.calls
            /\ evals = st.evals
            /\ pcalls = st.pcalls
            /\ timers = st.timers
            /\ timeout = st.timeout
            /\ awaiting = st.awaiting
            /\ jobs = st.jobs
            /\ element = st.element
            /\ ecalls = st.ecalls
            /\ op = [name |-> "limit", tgt |-> L, cb |-> NoCb, arg |-> v0,
                     ret |-> 0, notify |-> FALSE]
            /\ unsubs = {}
            /\ nextTok = 1
            /\ touched = {}

\* the limited readable this program built
Built(L) == limiter(L) \in Range(subs["src"])

\* one unit of time passes; a timer that is due fires before time moves on
Tick ==
    /\ timers # {}
    /\ \A t \in timers : t.left > 0
    /\ Commit([Heap EXCEPT !.timers = {[t EXCEPT !.left = @ - 1] : t \in @}])
    /\ op' = Op("tick", "src", NoCb, 0, 0)
    /\ UNCHANGED <<unsubs, nextTok, touched>>

\* a due timer fires
Fire(t) ==
    /\ t.left = 0
    /\ Commit(timer_fire(Heap, t))
    /\ op' = Op("fire", t.cell, NoCb, t.v, 0)
    /\ UNCHANGED <<unsubs, nextTok, touched>>

NextLimit ==
    \/ \E v \in Vals : Set("src", v)
    \/ \E L \in Limited, k \in Spies : Built(L) /\ Subscribe(L, spy(k))
    \/ \E L \in Limited, k \in Spies : Built(L) /\ OnChange(L, spy(k))
    \/ Tick
    \/ \E t \in timers : Fire(t)

SpecLimit == InitLimit /\ [][NextLimit]_vars

\* ------------------------------------------- promises (SpecAsync)
AsyncCells == {"url", "P.value", "P.dirty", "U", "LU",
               "Pe.value", "Pe.dirty", "Re.value", "Re.dirty",
               "Fu.value", "Fu.dirty"}
AsyncNodes == {"P", "Pe", "Re", "Fu"}

\* construction: url = state(u0); P = from(url, fatch).  The cells the
\* later constructors create are laid out with their initial contents.
InitAsync ==
    \E u0 \in Urls :
        /\ val = [c \in AsyncCells |->
                    IF c = "url" THEN u0
                    ELSE IF c = "U"
                         THEN Unwrapped(Newest, FALSE, Undef, Undef)
                    ELSE IF c = "LU" THEN NullObj
                    ELSE IF c \in {dirty[n] : n \in AsyncNodes} THEN TRUE
                    ELSE empty]
        /\ subs = [c \in AsyncCells |->
                    IF c = "url" THEN <<markDirty("P")>> ELSE <<>>]
        /\ last = [k \in Spies |-> NoCall]
        /\ calls = <<>>
        /\ evals = <<>>
        /\ op = Op("init", "url", NoCb, 0, 0)
        /\ unsubs = {}
        /\ nextTok = 1
        /\ touched = {}
        /\ pcalls = <<>>
        /\ timers = {}
        /\ timeout = 0
        /\ awaiting = <<>>
        /\ jobs = <<>>
        /\ element = {}
        /\ ecalls = <<>>

\* unwrapPromise(P) has been called
Unwrapping ==
    \E w \in Range(subs["P.dirty"]) : w.inner = "unwrap"

\* the derived value the program built on the unwrapped readable
Projection(n) == markDirty(n) \in Range(subs["U"]) \cup Range(subs["LU"])

\* the unwrapped readable itself is what the program holds
Plain == Unwrapping /\ \A n \in AsyncNodes : ~Projection(n)

InFlight == Len(awaiting) + Len(jobs)

\* u = unwrapPromise(P)
UnwrapPromise ==
    /\ ~Unwrapping
    /\ Commit(unwrapPromise(Heap, "P", "U"))
    /\ op' = Op("unwrapPromise", "U", NoCb, 0, 0)
    /\ UNCHANGED <<unsubs, nextTok, touched>>

\* pending(P)
Pending ==
    /\ ~Unwrapping
    /\ Commit(pending(Heap, "P"))
    /\ op' = Op("pending", "Pe", NoCb, 0, 0)
    /\ UNCHANGED <<unsubs, nextTok, touched>>

\* rejected(P)
Rejected ==
    /\ ~Unwrapping
    /\ Commit(rejected(Heap, "P"))
    /\ op' = Op("rejected", "Re", NoCb, 0, 0)
    /\ UNCHANGED <<unsubs, nextTok, touched>>

\* fulfilled(P)
Fulfilled ==
    /\ ~Unwrapping
    /\ Commit(fulfilled(Heap, "P"))
    /\ op' = Op("fulfilled", "Fu", NoCb, 0, 0)
    /\ UNCHANGED <<unsubs, nextTok, touched>>

\* url.set(u); the promises in flight are bounded
SetUrl(u) ==
    /\ Set("url", u)
    /\ InFlight' <= MaxInFlight

\* the environment settles the i-th awaited promise: it resolves with, or
\* rejects with, the url it was created for, and the suspended callback
\* becomes a microtask
Settle(i, ok) ==
    /\ Commit([Heap EXCEPT
                  !.awaiting = SubSeq(@, 1, i - 1) \o SubSeq(@, i + 1, Len(@)),
                  !.jobs = Append(@, [ok |-> ok,
                                      v |-> PromiseArg(awaiting[i])])])
    /\ op' = Op("settle", "U", NoCb, PromiseArg(awaiting[i]), Bool01(ok))
    /\ UNCHANGED <<unsubs, nextTok, touched>>

\* the first microtask runs: the callback resumes after its await
Resume ==
    /\ jobs # <<>>
    /\ Commit(resume([Heap EXCEPT !.jobs = Tail(@)], "U", Head(jobs)))
    /\ op' = Op("resume", "U", NoCb, Head(jobs).v, Bool01(Head(jobs).ok))
    /\ UNCHANGED <<unsubs, nextTok, touched>>

\* what happens around every program: url changes, P is read before the
\* program unwraps it, promises settle in any order, microtasks run
AsyncEnv ==
    \/ \E u \in Urls : SetUrl(u)
    \/ ~Unwrapping /\ FromCurrent("P")
    \/ \E i \in 1..Len(awaiting), ok \in BOOLEAN : Settle(i, ok)
    \/ Resume

\* the program reads the derived value n and registers one callback on it
Observe(n) ==
    \/ Projection(n) /\ FromCurrent(n)
    \/ Projection(n) /\ subs[dirty[n]] = <<>> /\ FromSubscribe(n, 1)
    \/ Projection(n) /\ subs[dirty[n]] = <<>> /\ FromOnChange(n, 1)

\* a program that calls unwrapPromise(P) and observes the result
NextUnwrap ==
    \/ AsyncEnv
    \/ UnwrapPromise
    \/ Plain /\ subs["U"] = <<>> /\ Subscribe("U", spy(1))
    \/ Plain /\ subs["U"] = <<>> /\ OnChange("U", spy(1))

SpecUnwrap == InitAsync /\ [][NextUnwrap]_vars

\* a program that calls pending(P)
NextPending == AsyncEnv \/ Pending \/ Observe("Pe")

SpecPending == InitAsync /\ [][NextPending]_vars

\* a program that calls rejected(P)
NextRejected == AsyncEnv \/ Rejected \/ Observe("Re")

SpecRejected == InitAsync /\ [][NextRejected]_vars

\* a program that calls fulfilled(P)
NextFulfilled == AsyncEnv \/ Fulfilled \/ Observe("Fu")

SpecFulfilled == InitAsync /\ [][NextFulfilled]_vars

\* ------------------------------------------ readonly views (SpecReadonly)
\* the readables the program wraps: the cell m and the derived value S
Wrapped21 == {"m", "S"}
Readable(x) == IF x \in DOMAIN deps THEN Derived(x) ELSE Writable(x)
View(x) == readonly(Readable(x))

\* the closure a registration through method hands back
UnsubOf(method, callback, tok) ==
    IF method.obj \in DOMAIN deps
    THEN Unsub(dirty[method.obj], callCallback(method.obj, callback, tok))
    ELSE Unsub(method.obj, callback)

\* readonly(x).current()
ViewCurrent(x) ==
    LET r == call_current(Heap, View(x).current)
    IN  /\ Commit(r.st)
        /\ op' = Op("view.current", x, NoCb, 0, r.ret)
        /\ touched' = touched \cup (IF x \in Nodes THEN Upstream(x) ELSE {})
        /\ UNCHANGED <<unsubs, nextTok>>

\* readonly(x).subscribe(spy k)
ViewSubscribe(x, k) ==
    /\ nextTok <= MaxTok
    /\ Commit(call(Heap, View(x).subscribe, spy(k), nextTok))
    /\ op' = Op("view.subscribe", x, spy(k), 0, 0)
    /\ unsubs' = unsubs \cup {UnsubOf(View(x).subscribe, spy(k), nextTok)}
    /\ nextTok' = nextTok + 1
    /\ touched' = touched \cup (IF x \in Nodes THEN Upstream(x) ELSE {})

\* readonly(x).onChange(spy k)
ViewOnChange(x, k) ==
    /\ nextTok <= MaxTok
    /\ Commit(call(Heap, View(x).onChange, spy(k), nextTok))
    /\ op' = Op("view.onChange", x, spy(k), 0, 0)
    /\ unsubs' = unsubs \cup {UnsubOf(View(x).onChange, spy(k), nextTok)}
    /\ nextTok' = nextTok + 1
    /\ UNCHANGED touched

NextReadonly ==
    \/ \E v \in Vals : Set("m", v)
    \/ \E v \in Vals : Set("a", v)
    \/ \E x \in Wrapped21 : ViewCurrent(x)
    \/ \E x \in Wrapped21, k \in Spies : ViewSubscribe(x, k)
    \/ \E x \in Wrapped21, k \in Spies : ViewOnChange(x, k)

SpecReadonly == Init /\ [][NextReadonly]_vars

\* ---------------------------------------------------- observation helpers
\* the combining function of n applied to what its dependencies' current()
\* return now
Computed(n) == fn(n, depValues(Heap, n, 1, <<>>).ret)

\* the user callbacks registered on a derived value (as wrapper closures)
UserWrappers(n) == {w \in Range(subs[dirty[n]]) : w.inner = "spy"}

\* the invocations of spy k within a list of invocations
CallsIn(cs, k) == SelectSeq(cs, LAMBDA e : e.id = k)

\* spy k is registered exactly once in the whole graph, as wrapper w
OnlyRegistration(w) ==
    \A n \in Nodes : \A x \in UserWrappers(n) : x.id = w.id => x = w

\* ------------------------------------------------- derived values (Spec)

\* C1: current() of a derived value returns the combining function applied
\* to what its dependencies' current() return at that moment.
C1_CurrentNeverStale ==
    (op.name = "current" /\ op.tgt \in Nodes) => op.ret = Computed(op.tgt)

\* C2: with a single subscribed callback on a derived value, the last value
\* delivered to the callback is, after every set on a dependency, the
\* combining function applied to the dependencies' current values (stated
\* for the set that follows a subscribe which delivered the current value).
C2_SubscriberHoldsLatest ==
    [][\A n \in Nodes, k \in Spies :
         (/\ op.name = "subscribe" /\ op.tgt = n /\ op.cb.id = k
          /\ Cardinality(UserWrappers(n)) = 1
          /\ last[k] = Computed(n)
          /\ op'.name = "set")
         => last'[k] = Computed(n)']_vars

\* C3: when two or more callbacks are registered on one derived value and
\* a set on a dependency alters its computed value, each of them is invoked
\* with the new value.
C3_NoCallbackSkipped ==
    [][\A n \in Nodes :
         (/\ op'.name = "set"
          /\ Cardinality({w.id : w \in UserWrappers(n)}) >= 2
          /\ Computed(n)' # Computed(n))
         => \A w \in UserWrappers(n) :
               [id |-> w.id, v |-> Computed(n)'] \in Range(calls')]_vars

\* C4: subscribe(cb) on a derived value invokes cb exactly once, with the
\* derived value's current value, before it returns; onChange(cb) does not
\* invoke cb.
C4_SubscribeDeliversOnce ==
    /\ (op.name = "subscribe" /\ op.tgt \in Nodes)
       => CallsIn(calls, op.cb.id) =
            <<[id |-> op.cb.id, v |-> Computed(op.tgt)]>>
    /\ (op.name = "onChange" /\ op.tgt \in Nodes)
       => CallsIn(calls, op.cb.id) = <<>>

\* C5: a callback registered with onChange on a derived value is invoked
\* with the new value when a later set on a dependency alters the computed
\* value, whatever was called on the derived value before (stated for the
\* set that follows the onChange).
C5_OnChangeNotified ==
    [][\A n \in Nodes, k \in Spies :
         (/\ op.name = "onChange" /\ op.tgt = n /\ op.cb.id = k
          /\ op'.name = "set"
          /\ Computed(n)' # Computed(n))
         => [id |-> k, v |-> Computed(n)'] \in Range(calls')]_vars

\* C6: a callback subscribed to a derived value is not invoked by a set
\* that leaves the computed value unchanged, and is invoked exactly once by
\* a set that changes it (stated for the set that follows the subscribe).
C6_OncePerTransition ==
    [][\A n \in Nodes, k \in Spies :
         (/\ op.name = "subscribe" /\ op.tgt = n /\ op.cb.id = k
          /\ \A w \in UserWrappers(n) : OnlyRegistration(w)
          /\ op'.name = "set")
         => IF Computed(n)' = Computed(n)
            THEN CallsIn(calls', k) = <<>>
            ELSE Len(CallsIn(calls', k)) = 1]_vars

\* C11: a derived value's combining function is not invoked by its
\* construction, by sets on its dependencies or by onChange registrations
\* as long as no current() or subscribe has reached it (directly or through
\* a value derived from it); onChange never invokes a combining function.
C11_LazyUntilRead ==
    /\ \A n \in Nodes :
         n \notin touched
         => /\ n \notin Range(evals)
            /\ current(Heap, value[n]) = empty
    /\ op.name = "onChange" => evals = <<>>

\* witness of C11: S has an onChange callback and its dependency was just
\* changed, and still nothing has read S
C11_Witness ==
    /\ "S" \notin touched
    /\ op.name = "set" /\ op.tgt = "a" /\ op.notify
    /\ UserWrappers("S") # {}

\* --------------------------------------------- state cells (SpecState)
\* the observers of m that record their calls
Registered(k) == spy(k) \in Range(subs["m"])
\* no registered observer of m calls set from inside the fan-out
NoNestedSet == setter("m") \notin Range(subs["m"])

\* C7: a top-level set(v) on a state cell whose observers do not call set
\* themselves invokes each registered observer exactly once with v when v
\* differs from the stored value and not at all otherwise, and current()
\* returns v afterwards.
C7_SetNotifiesEachChangeOnce ==
    (op.name = "set" /\ op.tgt = "m" /\ NoNestedSet)
    => /\ current(Heap, "m") = op.arg
       /\ \A k \in Spies :
            Registered(k)
            => CallsIn(calls, k) =
                 IF op.notify THEN <<[id |-> k, v |-> op.arg]>> ELSE <<>>

\* witness of C7: a changing set reached two registered observers
C7_Witness ==
    /\ op.name = "set" /\ op.tgt = "m" /\ NoNestedSet
    /\ op.notify
    /\ \A k \in Spies : Registered(k)
    /\ Len(calls) = 2

\* C8: set with a value equal to the stored one invokes no observer and
\* leaves current() and the registered observers as they were.
C8_EqualSetIsNoOp ==
    [][(op'.name = "set" /\ op'.tgt = "m" /\ op'.arg = current(Heap, "m"))
       => /\ calls' = <<>>
          /\ last' = last
          /\ current(Heap, "m")' = current(Heap, "m")
          /\ subs' = subs]_vars

\* witness of C8: an equal set on a cell that has observers
C8_Witness ==
    /\ op.name = "set" /\ op.tgt = "m" /\ ~op.notify
    /\ Len(subs["m"]) >= 2
    /\ current(Heap, "m") # 0

\* C9: subscribe(cb) on a state cell registers cb and invokes it exactly
\* once, with the stored value; onChange(cb) registers cb and invokes
\* nothing.
C9_SubscribeCallsOnChangeDoesNot ==
    (op.tgt = "m" /\ op.cb.kind = "spy")
    => /\ op.name = "subscribe"
          => /\ Registered(op.cb.id)
             /\ calls = <<[id |-> op.cb.id, v |-> current(Heap, "m")]>>
       /\ op.name = "onChange"
          => /\ Registered(op.cb.id)
             /\ calls = <<>>

\* witness of C9: a subscribe on a cell that was set before delivered the
\* stored value
C9_Witness ==
    /\ op.name = "subscribe" /\ op.tgt = "m" /\ op.cb.kind = "spy"
    /\ current(Heap, "m") # 0
    /\ Len(calls) = 1

\* C10: calling an unsubscribe action removes exactly its callback (a
\* second call changes nothing), a set never invokes a callback that is
\* not registered, and a changing set still invokes every registered one.
C10_UnsubscribeStopsOnlyThatCallback ==
    [][/\ (op'.name = "unsubscribe" /\ op'.tgt = "m")
          => /\ Range(subs'["m"]) = Range(subs["m"]) \ {op'.cb}
             /\ val' = val
             /\ calls' = <<>>
       /\ (op'.name = "set" /\ op'.tgt = "m")
          => \A k \in Spies :
               /\ ~Registered(k) => CallsIn(calls', k) = <<>>
               /\ (Registered(k) /\ op'.notify)
                  => CallsIn(calls', k) # <<>>]_vars

\* witness of C10: after one observer was unsubscribed, a changing set
\* reached the other one only
C10_Witness ==
    /\ op.name = "set" /\ op.tgt = "m" /\ op.notify
    /\ \E u \in unsubs : u.cb.kind = "spy" /\ ~Registered(u.cb.id)
    /\ \E k \in Spies : Registered(k)
    /\ Len(calls) = 1

\* -------------------------------------------------- limit (SpecLimit)
\* what the predicate named p returns for v
Returns(p, v) == IF p = "debounce" THEN FALSE ELSE passes(p, v)

AllPass(L, v) ==
    \A i \in 1..Len(limitations[L]) : Returns(limitations[L][i], v)

\* one invocation of every observer of L with v, in registration order
Notified(L, v) ==
    [i \in 1..Len(subs[L]) |-> [id |-> subs[L][i].id, v |-> v]]

\* the limited readables whose predicates are side-effect free
PureLimited == {"L1", "L2"}

\* C18: with side-effect-free predicates, an emission v of the source that
\* every predicate accepts makes the limited value v and notifies its
\* observers exactly when v differs from the value held; an emission some
\* predicate rejects leaves the limited value and its observers untouched.
C18_LimitFilters ==
    [][\A L \in PureLimited :
          (Built(L) /\ op'.name = "set" /\ op'.notify)
          => IF AllPass(L, op'.arg)
             THEN /\ val'[L] = op'.arg
                  /\ calls' = IF op'.arg # val[L]
                              THEN Notified(L, op'.arg) ELSE <<>>
             ELSE /\ val'[L] = val[L]
                  /\ calls' = <<>>
                  /\ last' = last]_vars

\* witness of C18: an accepted emission reached two observers of L2
C18_Witness ==
    /\ Built("L2") /\ op.name = "set" /\ op.notify
    /\ AllPass("L2", op.arg)
    /\ Len(calls) = 2

\* C19: at construction limit evaluates the predicates on the source's
\* current value; the limited value is that value when all of them return
\* true and null otherwise.
C19_LimitSeed ==
    \A L \in Limited :
        (op.name = "limit" /\ op.tgt = L)
        => /\ op.arg = val["src"]
           /\ pcalls # <<>>
           /\ \A i \in 1..Len(pcalls) : pcalls[i].v = op.arg
           /\ val[L] = IF AllPass(L, op.arg) THEN op.arg ELSE Null

\* witness of C19: limit(src, pos, even) built over a source holding a
\* positive even number
C19_Witness ==
    /\ op.name = "limit" /\ op.tgt = "L2"
    /\ AllPass("L2", op.arg)
    /\ val["L2"] = val["src"]

\* C20 as stated: when the timer of a burst fires, the observer of
\* limit(src, debounce(ms)) is notified exactly once with the last emitted
\* value.
C20_OneNotificationPerBurst ==
    [][(Built("L3") /\ op'.name = "fire" /\ op'.tgt = "L3"
          /\ Len(subs["L3"]) = 1)
       => calls' = Notified("L3", val["src"])]_vars

\* C20: for limit(src, debounce(ms)) at most one timer is pending; an
\* emission notifies nobody, leaves the limited value alone and (re)starts
\* the only timer at ms; the passing of time changes nothing; the timer
\* that fires carries the last emitted value, which becomes the limited
\* value, and the observers are notified once each when that value differs
\* from the value held and not at all when it equals it.
C20_DebounceSettles ==
    /\ [](Cardinality(timers) <= 1)
    /\ [][Built("L3") =>
          /\ (op'.name = "set" /\ op'.notify)
             => /\ val'["L3"] = val["L3"]
                /\ calls' = <<>>
                /\ \E t \in timers' :
                      /\ timers' = {t}
                      /\ t.left = ms /\ t.cell = "L3" /\ t.v = op'.arg
          /\ op'.name = "tick"
             => /\ val'["L3"] = val["L3"]
                /\ calls' = <<>>
                /\ \A t \in timers : t.left > 0
          /\ (op'.name = "fire" /\ op'.tgt = "L3")
             => /\ op'.arg = val["src"]
                /\ val'["L3"] = op'.arg
                /\ timers' = {}
                /\ calls' = IF op'.arg # val["L3"]
                            THEN Notified("L3", op'.arg) ELSE <<>>]_vars

\* witness of C20: the timer of a burst fired and the observers of the
\* limited value were notified
C20_Witness ==
    /\ Built("L3") /\ op.name = "fire" /\ op.tgt = "L3"
    /\ calls # <<>>
    /\ val["L3"] = val["src"]

\* ----------------------------------------------- promises (SpecAsync)
\* the record { pending: true, result: undefined, error: undefined }
IsPendingRecord(r) == r.pending /\ r.result = Undef /\ r.error = Undef

\* C12: immediately after unwrapPromise returns, the unwrapped readable's
\* current() is { pending: true, result: undefined, error: undefined },
\* whether or not the source was read before.
C12_PendingAfterUnwrap ==
    op.name = "unwrapPromise" => IsPendingRecord(current(Heap, "U"))

\* C13: an emission of the source (the async callback reaches its await)
\* writes a new pending record to the unwrapped cell within the same
\* operation and every observer of the unwrapped readable receives it
\* there; a settled record is written, and delivered to the observers,
\* only by a continuation that resumes later.
C13_PendingBeforeSettled ==
    [][/\ Len(awaiting') > Len(awaiting)
          => /\ IsPendingRecord(val'["U"])
             /\ Plain => calls' = Notified("U", val'["U"])
       /\ op'.name = "resume"
          => /\ ~val'["U"].pending
             /\ Len(awaiting') = Len(awaiting)
             /\ Plain => calls' = Notified("U", val'["U"])
       /\ (Unwrapping /\ op'.name # "resume")
          => \/ IsPendingRecord(val'["U"])
             \/ /\ Len(awaiting') <= Len(awaiting)
                /\ val'["U"] = val["U"]]_vars

\* witness of C13: url.set made the source emit and the observer of the
\* unwrapped readable received the pending record
C13_Witness ==
    /\ Plain /\ op.name = "set" /\ awaiting # <<>>
    /\ Len(calls) = 1 /\ IsPendingRecord(calls[1].v)

\* C14: when the only promise in flight settles, the unwrapped state
\* becomes { pending: false, result: v, error: undefined } if it resolved
\* with v and { pending: false, result: undefined, error: e } if it
\* rejected with e; the rejection has no other effect.
C14_SettledRecord ==
    [][(op'.name = "resume" /\ awaiting = <<>> /\ Len(jobs) = 1)
       => LET job == Head(jobs)
              u == val'["U"]
          IN  /\ ~u.pending
              /\ job.ok => u.result = job.v /\ u.error = Undef
              /\ ~job.ok => u.result = Undef /\ u.error = job.v
              /\ awaiting' = <<>> /\ jobs' = <<>>]_vars

\* witness of C14: the only promise in flight rejected and the unwrapped
\* state carries its reason
C14_Witness ==
    /\ op.name = "resume" /\ op.ret = Bool01(FALSE)
    /\ awaiting = <<>> /\ jobs = <<>>
    /\ current(Heap, "U").error = op.arg

\* C15: the last value delivered to a callback subscribed to pending(P)
\* equals the pending flag of the unwrapped state.
C15_PendingSubscriberCurrent ==
    \A w \in UserWrappers("Pe") :
        last[w.id] # NoCall
        => last[w.id] = Bool01(current(Heap, "U").pending)

\* C16: the last value delivered to a callback subscribed to rejected(P)
\* equals the error of the unwrapped state.
C16_RejectedSubscriberCurrent ==
    \A w \in UserWrappers("Re") :
        last[w.id] # NoCall
        => last[w.id] = current(Heap, "U").error

\* what fulfilled(P).current() returns in this state: the cached value
\* unless the cache is empty or dirty, in which case the value is computed
FulfilledCurrent ==
    IF current(Heap, value["Fu"]) = empty \/ current(Heap, dirty["Fu"])
    THEN fn("Fu", <<current(Heap, "LU")>>)
    ELSE current(Heap, value["Fu"])

\* C17: fulfilled(P).current() is undefined at first and from then on the
\* result of the most recent unwrapped state with pending = false and
\* error = undefined: it changes to that result when such a state is
\* written and stays as it is whenever anything else happens; writes of
\* pending or rejected states do not notify the subscribers of
\* fulfilled(P).
C17_FulfilledKeepsLastResult ==
    /\ FulfilledCurrent = Undef
    /\ [][Projection("Fu")' =>
          LET u == val'["U"]
              good == op'.name = "resume" /\ ~u.pending /\ u.error = Undef
          IN  /\ FulfilledCurrent' =
                    IF good THEN u.result ELSE FulfilledCurrent
              /\ (op'.name = "current" /\ op'.tgt = "Fu")
                 => op'.ret = FulfilledCurrent
              /\ (~good /\ op'.name \in {"set", "settle", "resume"})
                 => calls' = <<>>]_vars

\* witness of C17: a promise rejected after an earlier one had resolved and
\* fulfilled(P) still holds the earlier result
C17_Witness ==
    /\ Projection("Fu")
    /\ op.name = "resume" /\ op.ret = Bool01(FALSE)
    /\ current(Heap, "U").error # Undef
    /\ FulfilledCurrent # Undef
    /\ UserWrappers("Fu") # {}

\* ------------------------------------------- readonly (SpecReadonly)
\* what x.current() returns in this state, x a cell or a derived value
CurrentOf(x) ==
    IF x \in Nodes
    THEN IF current(Heap, value[x]) = empty \/ current(Heap, dirty[x])
         THEN Computed(x) ELSE current(Heap, value[x])
    ELSE current(Heap, x)

\* the heap a registration made directly on x leaves behind
Direct(x, name, callback, tok) ==
    IF x \in Nodes
    THEN IF name = "subscribe"
         THEN from_subscribe(Heap, x, callback, tok)
         ELSE from_onChange(Heap, x, callback, tok)
    ELSE IF name = "subscribe"
         THEN subscribe(Heap, x, callback)
         ELSE onChange(Heap, x, callback)

\* C21: readonly(r).current() returns what r.current() returns in every
\* state, a callback registered through the view leaves exactly the heap
\* (subscriptions, invocations made) that registering it on r leaves, so
\* it is notified as a callback of r is, and the view has no set method.
C21_ReadonlyIsTheSameReadable ==
    [][\A x \in Wrapped21 :
          /\ "set" \notin DOMAIN View(x)
          /\ (op'.name = "view.current" /\ op'.tgt = x)
             => op'.ret = CurrentOf(x)
          /\ (op'.name = "view.subscribe" /\ op'.tgt = x)
             => LET d == Direct(x, "subscribe", op'.cb, nextTok)
                IN  /\ subs' = d.subs /\ val' = d.val
                    /\ calls' = d.calls /\ last' = d.last
          /\ (op'.name = "view.onChange" /\ op'.tgt = x)
             => LET d == Direct(x, "onChange", op'.cb, nextTok)
                IN  /\ subs' = d.subs /\ val' = d.val
                    /\ calls' = d.calls /\ last' = d.last]_vars

\* witness of C21: a callback registered through readonly(m) was notified
\* of a set on m
C21_Witness ==
    /\ op.name = "set" /\ op.tgt = "m" /\ op.notify
    /\ calls # <<>>
    /\ \A k \in Spies : last[k] \in {NoCall, current(Heap, "m")}

\* ------------------------------------------- re-entrant set (SpecState)
\* how many times spy k was invoked with x
Times(cs, k, x) ==
    Cardinality({i \in 1..Len(cs) : cs[i].id = k /\ cs[i].v = x})

\* C22: when an observer of m sets m again during the fan-out of set(v),
\* the two transitions (to v, then to the value the observer wrote) reach
\* every registered observer exactly once each, with their own values.
C22_ReentrantSetDeliversEachTransition ==
    (op.name = "set" /\ op.tgt = "m" /\ op.notify
        /\ ~NoNestedSet /\ op.arg # SetterVal)
    => \A k \in Spies :
         Registered(k)
         => /\ Times(calls, k, op.arg) = 1
            /\ Times(calls, k, SetterVal) = 1
            /\ Len(CallsIn(calls, k)) = 2

\* ------------------------------------------- promise race (SpecUnwrap)
\* C23: continuations run in the order their promises settled, and each
\* writes the outcome of its own promise into the unwrapped cell whatever
\* the cell holds and whichever promise the source holds now; so a promise
\* that settles after a later-emitted one leaves its outcome in the cell.
C23_CompletionsWrittenInSettlementOrder ==
    [][/\ op'.name = "settle"
          => /\ Len(jobs') = Len(jobs) + 1
             /\ SubSeq(jobs', 1, Len(jobs)) = jobs
             /\ val'["U"] = val["U"]
       /\ op'.name = "resume"
          => LET job == Head(jobs)
                 u == val'["U"]
             IN  /\ jobs' = Tail(jobs)
                 /\ ~u.pending
                 /\ u.result = (IF job.ok THEN job.v ELSE Undef)
                 /\ u.error = (IF job.ok THEN Undef ELSE job.v)
                 /\ val'["P.value"] = val["P.value"]]_vars

\* witness of C23: nothing is in flight any more and the unwrapped cell
\* holds the outcome of a promise that is not the source's current one
C23_Witness ==
    /\ op.name = "resume" /\ awaiting = <<>> /\ jobs = <<>>
    /\ current(Heap, "P.value") # empty
    /\ op.arg # PromiseArg(current(Heap, "P.value"))
    /\ LET u == current(Heap, "U")
       IN  op.arg \in {u.result, u.error}

\* ------------------------------------------------ chain laziness (Spec)
\* C24: in the chain F over S over the cell a, with no user callback
\* registered on S or F, a set on a cell invokes no combining function.
C24_SetNeverComputesUnobserved ==
    (op.name = "set" /\ UserWrappers("S") = {} /\ UserWrappers("F") = {})
    => evals = <<>>

\* ------------------------------------------------- fromEvent (SpecEvent)
EventCells == {"events", "subCount"}

\* construction: clicks = fromEvent(element, "click")
InitEvent ==
    /\ val = [c \in EventCells |-> IF c = "events" THEN Undef ELSE 0]
    /\ subs = [c \in EventCells |->
                IF c = "subCount" THEN <<countListener>> ELSE <<>>]
    /\ last = [k \in Spies |-> NoCall]
    /\ calls = <<>>
    /\ evals = <<>>
    /\ op = Op("fromEvent", "events", NoCb, 0, 0)
    /\ unsubs = {}
    /\ nextTok = 1
    /\ touched = {}
    /\ pcalls = <<>>
    /\ timers = {}
    /\ timeout = 0
    /\ awaiting = <<>>
    /\ jobs = <<>>
    /\ element = {}
    /\ ecalls = <<>>

\* clicks.subscribe(spy k)
EventSubscribe(k) ==
    /\ val["subCount"] < MaxCount
    /\ Commit(fromEvent_subscribe(Heap, spy(k)))
    /\ op' = Op("subscribe", "events", spy(k), 0, 0)
    /\ unsubs' = unsubs \cup {Unsub("events", spy(k))}
    /\ UNCHANGED <<nextTok, touched>>

\* clicks.onChange(spy k)
EventOnChange(k) ==
    /\ val["subCount"] < MaxCount
    /\ Commit(fromEvent_onChange(Heap, spy(k)))
    /\ op' = Op("onChange", "events", spy(k), 0, 0)
    /\ unsubs' = unsubs \cup {Unsub("events", spy(k))}
    /\ UNCHANGED <<nextTok, touched>>

\* calling a closure clicks.subscribe or clicks.onChange returned (any
\* number of times)
EventUnsubscribe(u) ==
    /\ val["subCount"] > -MaxCount
    /\ Commit(fromEvent_unsubscribe(Heap, u))
    /\ op' = Op("unsubscribe", "events", u.cb, 0, 0)
    /\ UNCHANGED <<unsubs, nextTok, touched>>

\* every event the element dispatches is a new object
FreshEvent == IF val["events"] = 1 THEN 2 ELSE 1

\* the element dispatches an event to the listeners it holds
Dispatch ==
    /\ Commit(IF "listener" \in element THEN listener(Heap, FreshEvent)
              ELSE Heap)
    /\ op' = Op("dispatch", "events", NoCb, FreshEvent, 0)
    /\ UNCHANGED <<unsubs, nextTok, touched>>

NextEvent ==
    \/ \E k \in Spies : EventSubscribe(k)
    \/ \E k \in Spies : EventOnChange(k)
    \/ \E u \in unsubs : EventUnsubscribe(u)
    \/ Dispatch

SpecEvent == InitEvent /\ [][NextEvent]_vars

\* ------------------------------------- unsubscribing (SpecCancel)
\* one of two programs: src = state(v0) with a debounced limit of it, or
\* url = state(u0); P = from(url, fatch) to be unwrapped
InitCancel ==
    \/ InitLimit /\ (Built("L3") \/ Built("L4"))
    \/ InitAsync

\* the program calls the unsubscribe of a callback that is registered
Cancel(u) ==
    /\ u.cb \in Range(subs[u.cell])
    /\ Unsubscribe(u)

\* either program, which also unsubscribes the callbacks it registered
NextCancel ==
    \/ "src" \in DOMAIN val /\ NextLimit
    \/ "url" \in DOMAIN val /\ NextUnwrap
    \/ \E u \in unsubs : Cancel(u)

SpecCancel == InitCancel /\ [][NextCancel]_vars

CalledFor(L, v) ==
    LET ps == limitations[L]
        stop == {i \in 1..Len(ps) : ~Returns(ps[i], v)}
        n == IF stop = {} THEN Len(ps)
             ELSE CHOOSE i \in stop : \A j \in stop : i <= j
    IN  [i \in 1..n |-> ps[i]]

\* C26: for each candidate value (the source's value at construction, the
\* emitted value afterwards) limit calls its predicates in list order and
\* stops after the first that returns false; a debounce behind a predicate
\* that returned false is not called and leaves the timers as they were.
C26_PredicatesShortCircuit ==
    [][\A L \in Limited :
          (Built(L)' /\ (op'.name = "limit" \/ (op'.name = "set" /\ op'.notify)))
          => /\ [i \in 1..Len(pcalls') |-> pcalls'[i].p]
                    = CalledFor(L, op'.arg)
             /\ (\A i \in 1..Len(pcalls') : pcalls'[i].p # "debounce")
                => timers' = timers /\ timeout' = timeout]_vars

\* witness of C26: pos rejected an emission while a timer of the debounce
\* behind it was pending, and the timer is still the one for the earlier
\* value
C26_Witness ==
    /\ Built("L4") /\ op.name = "set" /\ op.notify
    /\ ~passes("pos", op.arg)
    /\ Len(pcalls) = 1
    /\ \E t \in timers : t.cell = "L4" /\ t.v # op.arg

\* ------------------------------------------------- fromEvent (SpecEvent)
\* C27: addEventListener is called only by an operation that takes the
\* count of registered callbacks from zero to non-zero, removeEventListener
\* only by one that takes it from non-zero to zero; an operation that
\* leaves other callbacks registered calls neither.
C27_ListenerCallsOnlyAtZeroCrossing ==
    [][/\ (\E i \in 1..Len(ecalls') : ecalls'[i] = "add")
          => val["subCount"] = 0 /\ val'["subCount"] > 0
       /\ (\E i \in 1..Len(ecalls') : ecalls'[i] = "remove")
          => val["subCount"] > 0 /\ val'["subCount"] = 0
       /\ (val["subCount"] > 0 /\ val'["subCount"] > 0)
          => ecalls' = <<>>]_vars

\* C29: the count of subscribers is never negative and the element holds
\* the listener exactly when at least one callback is registered.
C29_ListenerAttachedIffRegistered ==
    /\ val["subCount"] >= 0
    /\ ("listener" \in element) <=> (subs["events"] # <<>>)

\* ------------------------------------- unsubscribing (SpecCancel)
\* C28: unsubscribing a callback of a debounced or unwrapped readable
\* leaves the pending timers and the awaited promises as they were; when a
\* timer fires or an awaited promise's continuation runs while the
\* readable has no callback, its cell is still set to the debounced value
\* or to the settled record (so current() returns it) and no callback is
\* invoked; no operation ever invokes a callback that is not registered.
C28_UnsubscribeCancelsNothing ==
    [][/\ op'.name = "unsubscribe"
          => /\ timers' = timers /\ timeout' = timeout
             /\ awaiting' = awaiting /\ jobs' = jobs
             /\ val' = val
       /\ (op'.name = "fire" /\ op'.tgt # NoWritable)
          => /\ val'[op'.tgt] = op'.arg
             /\ subs[op'.tgt] = <<>> => calls' = <<>> /\ last' = last
       /\ (op'.name = "resume" /\ jobs # <<>>)
          => LET job == Head(jobs)
                 u == val'["U"]
             IN  /\ ~u.pending
                 /\ job.ok => u.result = job.v /\ u.error = Undef
                 /\ ~job.ok => u.result = Undef /\ u.error = job.v
                 /\ subs["U"] = <<>> => calls' = <<>> /\ last' = last
       /\ \A i \in 1..Len(calls') :
             \E c \in DOMAIN subs' : spy(calls'[i].id) \in Range(subs'[c])
      ]_vars

\* witness of C28: a debounce timer fired after every callback of the
\* limited readable had been unsubscribed: the readable holds the
\* debounced value, which the unsubscribed callback never received
C28_Witness ==
    /\ op.name = "fire" /\ op.tgt \in Limited
    /\ subs[op.tgt] = <<>>
    /\ current(Heap, op.tgt) = op.arg
    /\ \E u \in unsubs :
          /\ u.cell = op.tgt
          /\ last[u.cb.id] \notin {NoCall, op.arg}

====
